---------------------------- MODULE Spec2Model ----------------------------
(***************************************************************************)
(* Model of chatbot.py: the InvestorEntrepreneurChatbot classification and *)
(* session engine (identify_user_type, identify_intent, process_message,   *)
(* generate_response, get_suggestions) and the Flask handlers that reach   *)
(* it (chat_api, get_conversation, webhook_endpoint).                      *)
(*                                                                         *)
(* Python strings are TLA+ strings; str.lower, the `in` substring test and *)
(* re.search are computed character by character.  Python dicts and lists  *)
(* are objects reached by reference: conversation_history and              *)
(* user_profiles map an id to a reference into the heaps `lists` and       *)
(* `dicts`.  datetime.now() is a counter read once per turn, and          *)
(* uuid.uuid4() returns any id that no session and no call in flight       *)
(* holds.  Spec serves the requests one at a time, each handler as one     *)
(* action; ConcSpec runs process_message statement by statement on the     *)
(* threads of the server; FnSpec calls identify_user_type, identify_intent,*)
(* generate_response and get_suggestions once each on arguments of their   *)
(* own.                                                                    *)
(***************************************************************************)
EXTENDS Integers, Sequences, FiniteSets, TLC

-----------------------------------------------------------------------------
(* Strings *)

UpperCase == "ABCDEFGHIJKLMNOPQRSTUVWXYZ"
LowerCase == "abcdefghijklmnopqrstuvwxyz"

\* One character of str.lower(): an ASCII capital maps to its small letter.
CharLower(c) ==
    IF \E i \in 1..Len(UpperCase) : SubSeq(UpperCase, i, i) = c
    THEN LET i == CHOOSE j \in 1..Len(UpperCase) : SubSeq(UpperCase, j, j) = c
         IN  SubSeq(LowerCase, i, i)
    ELSE c

RECURSIVE lower(_)
\* str.lower()
lower(s) ==
    IF Len(s) = 0 THEN ""
    ELSE CharLower(SubSeq(s, 1, 1)) \o lower(SubSeq(s, 2, Len(s)))

\* k occurs in s at index i
OccursAt(k, s, i) ==
    /\ i >= 1
    /\ i + Len(k) - 1 <= Len(s)
    /\ SubSeq(s, i, i + Len(k) - 1) = k

\* Python's `k in s` for strings
Contains(k, s) == \E i \in 1..(Len(s) + 1) : OccursAt(k, s, i)

\* The least index >= from at which k occurs in s, or 0
Find(k, s, from) ==
    IF \E i \in from..(Len(s) + 1) : OccursAt(k, s, i)
    THEN CHOOSE i \in from..(Len(s) + 1) :
            /\ OccursAt(k, s, i)
            /\ \A j \in from..(i - 1) : ~OccursAt(k, s, j)
    ELSE 0

RECURSIVE MatchRest(_, _, _)
\* The rest of a pattern lit1.*lit2.*...: each `.*` spans any characters but
\* a line break, so the next literal is taken at its first occurrence.
MatchRest(parts, s, from) ==
    IF parts = <<>> THEN TRUE
    ELSE LET i == Find(Head(parts), s, from)
         IN  /\ i # 0
             /\ ~Contains("\n", SubSeq(s, from, i - 1))
             /\ MatchRest(Tail(parts), s, i + Len(Head(parts)))

\* re.search(pattern, s) for a pattern given as its literals, joined by `.*`
re_search(parts, s) ==
    \E i \in 1..(Len(s) + 1) :
        /\ OccursAt(Head(parts), s, i)
        /\ MatchRest(Tail(parts), s, i + Len(Head(parts)))

-----------------------------------------------------------------------------
(* The pattern registry and the classifiers *)

\* self.intent_patterns: per group, the intents in registration order, each
\* with its patterns in list order.
intent_patterns ==
    [ investor |-> <<
        [ intent |-> "seeking_startups", patterns |-> <<
            <<"looking for", "startup">>, <<"investment", "opportunit">>,
            <<"seed", "round">>, <<"series", "funding">>,
            <<"startup", "invest">>, <<"due", "diligence">>,
            <<"invest", "in", "startup">>, <<"startup", "investment">>,
            <<"find", "startup">> >> ],
        [ intent |-> "portfolio_inquiry", patterns |-> <<
            <<"portfolio", "track">>, <<"investment", "performance">>,
            <<"return", "investment">>, <<"portfolio", "management">> >> ],
        [ intent |-> "market_analysis", patterns |-> <<
            <<"market", "trend">>, <<"industry", "analysis">>,
            <<"sector", "growth">>, <<"market", "size">>,
            <<"competition", "analysis">> >> ] >>,
      entrepreneur |-> <<
        [ intent |-> "seeking_funding", patterns |-> <<
            <<"need", "funding">>, <<"raise", "capital">>,
            <<"looking", "investor">>, <<"seed", "money">>,
            <<"venture", "capital">>, <<"angel", "investor">>,
            <<"seeking", "funding">>, <<"need", "investment">> >> ],
        [ intent |-> "pitch_help", patterns |-> <<
            <<"pitch", "deck">>, <<"business", "plan">>,
            <<"present", "idea">>, <<"pitch", "help">>,
            <<"investor", "presentation">> >> ],
        [ intent |-> "business_advice", patterns |-> <<
            <<"business", "advice">>, <<"startup", "help">>,
            <<"scale", "business">>, <<"growth", "strategy">>,
            <<"business", "model">> >> ] >>,
      general |-> <<
        [ intent |-> "platform_info", patterns |-> <<
            <<"how", "platform", "work">>, <<"what", "this", "platform">>,
            <<"platform", "feature">>, <<"how", "use", "platform">> >> ],
        [ intent |-> "registration", patterns |-> <<
            <<"sign", "up">>, <<"register">>, <<"create", "account">>,
            <<"join", "platform">> >> ],
        [ intent |-> "meeting_scheduling", patterns |-> <<
            <<"schedule", "meeting">>, <<"book", "appointment">>,
            <<"arrange", "call">>, <<"set", "meeting">> >> ] >> ]

investor_keywords ==
    <<"invest", "portfolio", "capital", "funding round", "due diligence", "returns">>
entrepreneur_keywords ==
    <<"startup", "raise money", "pitch", "business idea", "need funding", "scale">>

\* sum(1 for keyword in keywords if keyword in message_lower)
KeywordScore(keywords, message_lower) ==
    Cardinality({ i \in 1..Len(keywords) : Contains(keywords[i], message_lower) })

\* Mutant of ScoreUserType: the two comparisons exchanged
ScoreUserType_exchanged(message) ==
    LET message_lower == lower(message)
        investor_score == KeywordScore(investor_keywords, message_lower)
        entrepreneur_score == KeywordScore(entrepreneur_keywords, message_lower)
    IN  IF investor_score < entrepreneur_score THEN "investor"
        ELSE IF entrepreneur_score < investor_score THEN "entrepreneur"
        ELSE "unknown"

\* The number of occurrences of the keywords in the message: the pairs of
\* a keyword and a position at which it occurs
KeywordOccurrences(keywords, message_lower) ==
    Cardinality({ x \in (1..Len(keywords)) \X (1..Len(message_lower)) :
                    OccursAt(keywords[x[1]], message_lower, x[2]) })

\* Mutant of ScoreUserType: every occurrence of a keyword counts
ScoreUserType_occurrences(message) ==
    LET message_lower == lower(message)
        investor_score == KeywordOccurrences(investor_keywords, message_lower)
        entrepreneur_score == KeywordOccurrences(entrepreneur_keywords, message_lower)
    IN  IF investor_score > entrepreneur_score THEN "investor"
        ELSE IF entrepreneur_score > investor_score THEN "entrepreneur"
        ELSE "unknown"

\* Mutant of ScoreUserType: the message is not lower-cased
ScoreUserType_cased(message) ==
    LET investor_score == KeywordScore(investor_keywords, message)
        entrepreneur_score == KeywordScore(entrepreneur_keywords, message)
    IN  IF investor_score > entrepreneur_score THEN "investor"
        ELSE IF entrepreneur_score > investor_score THEN "entrepreneur"
        ELSE "unknown"

\* identify_user_type, lines 98-107: the role scored from the message
ScoreUserType(message) ==
    LET message_lower == lower(message)
        investor_score == KeywordScore(investor_keywords, message_lower)
        entrepreneur_score == KeywordScore(entrepreneur_keywords, message_lower)
    IN  IF investor_score > entrepreneur_score THEN "investor"
        ELSE IF entrepreneur_score > investor_score THEN "entrepreneur"
        ELSE "unknown"

\* Does some pattern of the group's i-th intent match?
IntentMatches(group, i, message_lower) ==
    \E p \in 1..Len(group[i].patterns) : re_search(group[i].patterns[p], message_lower)

\* Mutant of ScanGroup: the last matching intent, not the first
ScanGroup_last(group, message_lower) ==
    IF \E i \in 1..Len(group) : IntentMatches(group, i, message_lower)
    THEN LET i == CHOOSE j \in 1..Len(group) :
                    /\ IntentMatches(group, j, message_lower)
                    /\ \A k \in (j + 1)..Len(group) :
                            ~IntentMatches(group, k, message_lower)
         IN  group[i].intent
    ELSE ""

\* The nested for loops of identify_intent over one group: the first intent,
\* in registration order, one of whose patterns matches; "" when none does.
ScanGroup(group, message_lower) ==
    IF \E i \in 1..Len(group) : IntentMatches(group, i, message_lower)
    THEN LET i == CHOOSE j \in 1..Len(group) :
                    /\ IntentMatches(group, j, message_lower)
                    /\ \A k \in 1..(j - 1) : ~IntentMatches(group, k, message_lower)
         IN  group[i].intent
    ELSE ""

\* Mutant of identify_intent: the general group is scanned only for a role
\* that has a group of its own
identify_intent_no_fallback(message, user_type) ==
    LET message_lower == lower(message)
    IN  IF user_type \in DOMAIN intent_patterns
        THEN LET own == ScanGroup(intent_patterns[user_type], message_lower)
                 gen == ScanGroup(intent_patterns["general"], message_lower)
             IN  IF own # "" THEN own
                 ELSE IF gen # "" THEN gen ELSE "general_inquiry"
        ELSE "general_inquiry"

\* Mutant of identify_intent: the groups of the other roles are scanned
\* before the general group
identify_intent_any_group(message, user_type) ==
    LET message_lower == lower(message)
        scan(g) == ScanGroup(intent_patterns[g], message_lower)
        own == IF user_type \in DOMAIN intent_patterns THEN scan(user_type) ELSE ""
    IN  IF own # "" THEN own
        ELSE IF scan("investor") # "" THEN scan("investor")
        ELSE IF scan("entrepreneur") # "" THEN scan("entrepreneur")
        ELSE IF scan("general") # "" THEN scan("general")
        ELSE "general_inquiry"

\* Mutant of identify_intent: no sentinel, the result of the general scan
\* is returned as it is
identify_intent_no_sentinel(message, user_type) ==
    LET message_lower == lower(message)
        own == IF user_type \in DOMAIN intent_patterns
               THEN ScanGroup(intent_patterns[user_type], message_lower)
               ELSE ""
    IN  IF own # "" THEN own
        ELSE ScanGroup(intent_patterns["general"], message_lower)

identify_intent(message, user_type) ==
    LET message_lower == lower(message)
        own == IF user_type \in DOMAIN intent_patterns
               THEN ScanGroup(intent_patterns[user_type], message_lower)
               ELSE ""
    IN  IF own # "" THEN own
        ELSE LET gen == ScanGroup(intent_patterns["general"], message_lower)
             IN  IF gen # "" THEN gen ELSE "general_inquiry"

-----------------------------------------------------------------------------
(* The response engine *)

\* self.responses: group -> intent -> the generator registered for it
responses ==
    [ investor |->
        [ seeking_startups |-> "_get_startup_opportunities_response",
          portfolio_inquiry |-> "_get_portfolio_response",
          market_analysis |-> "_get_market_analysis_response" ],
      entrepreneur |->
        [ seeking_funding |-> "_get_funding_opportunities_response",
          pitch_help |-> "_get_pitch_help_response",
          business_advice |-> "_get_business_advice_response" ],
      general |->
        [ platform_info |-> "_get_platform_info_response",
          registration |-> "_get_registration_response",
          meeting_scheduling |-> "_get_meeting_scheduling_response" ] ]

\* The nine generators: each returns a fixed text (its heading stands for the
\* whole template), whatever message and conversation_id are.
CallGenerator(generator, message, conversation_id) ==
    CASE generator = "_get_startup_opportunities_response" ->
            "**Startup Investment Opportunities**"
      [] generator = "_get_funding_opportunities_response" ->
            "**Funding Opportunities for Entrepreneurs**"
      [] generator = "_get_pitch_help_response" ->
            "**Pitch Deck & Presentation Help**"
      [] generator = "_get_platform_info_response" ->
            "**Welcome to the Investor-Entrepreneur Platform!**"
      [] generator = "_get_registration_response" ->
            "**Platform Registration**"
      [] generator = "_get_meeting_scheduling_response" ->
            "**Meeting & Call Scheduling**"
      [] generator = "_get_portfolio_response" ->
            "**Portfolio Management & Tracking**"
      [] generator = "_get_market_analysis_response" ->
            "**Market Analysis & Trends**"
      [] generator = "_get_business_advice_response" ->
            "**Business Advice & Strategy**"

\* Mutant of get_default_response: the message is quoted in the text
get_default_response_echo(user_type, message) ==
    LET user_greeting ==
            CASE user_type = "investor" -> "As an investor"
              [] user_type = "entrepreneur" -> "As an entrepreneur"
              [] user_type = "unknown" ->
                    "Welcome! Whether you're an investor or entrepreneur"
              [] OTHER -> "Hello"
    IN  user_greeting \o ", you said: " \o message

get_default_response(user_type, message) ==
    LET user_greeting ==
            CASE user_type = "investor" -> "As an investor"
              [] user_type = "entrepreneur" -> "As an entrepreneur"
              [] user_type = "unknown" ->
                    "Welcome! Whether you're an investor or entrepreneur"
              [] OTHER -> "Hello"
    IN  user_greeting \o ", I'm here to help you succeed on our platform!"

\* Mutant of generate_response: no second tier, the general generators are
\* not looked up
generate_response_one_tier(user_type, intent, message, conversation_id) ==
    IF user_type \in DOMAIN responses /\ intent \in DOMAIN responses[user_type]
    THEN CallGenerator(responses[user_type][intent], message, conversation_id)
    ELSE get_default_response(user_type, message)

generate_response(user_type, intent, message, conversation_id) ==
    IF user_type \in DOMAIN responses /\ intent \in DOMAIN responses[user_type]
    THEN CallGenerator(responses[user_type][intent], message, conversation_id)
    ELSE IF intent \in DOMAIN responses["general"]
    THEN CallGenerator(responses["general"][intent], message, conversation_id)
    ELSE get_default_response(user_type, message)

\* The suggestions table of get_suggestions
suggestions ==
    [ investor |-> <<
        "Show me startup opportunities in tech",
        "What's the average ROI in Series A rounds?",
        "Schedule a meeting with promising startups",
        "Analyze market trends in fintech" >>,
      entrepreneur |-> <<
        "Help me prepare my pitch deck",
        "Find investors interested in my industry",
        "What funding stage am I ready for?",
        "Connect me with mentors" >>,
      unknown |-> <<
        "I'm an investor looking for opportunities",
        "I'm an entrepreneur seeking funding",
        "Tell me about this platform",
        "How do I get started?" >> ]

\* Mutant of get_suggestions: no default, a role without an entry gets no
\* prompt
get_suggestions_no_default(user_type, intent) ==
    IF user_type \in DOMAIN suggestions
    THEN suggestions[user_type]
    ELSE <<>>

get_suggestions(user_type, intent) ==
    IF user_type \in DOMAIN suggestions
    THEN suggestions[user_type]
    ELSE suggestions["unknown"]

-----------------------------------------------------------------------------
(* Bounds and inputs *)

\* process_message calls started in one behaviour
MaxCalls == 2

\* The request messages: the empty message, a message whose keywords tie,
\* an entrepreneur message, a message without role keywords that matches a
\* general pattern, an investor message.
Messages ==
    { "",
      "I'm looking for startup investment opportunities",
      "I need funding for my startup",
      "how does the platform work",
      "portfolio tracking and investment performance" }

\* The messages the classifiers are applied to on their own: messages
\* without a keyword, with keywords in upper case, with keywords of one
\* role, of both roles (tied and not), and messages that match patterns of
\* two intents of one group or of two groups, and a message in which one
\* investor keyword occurs twice and one entrepreneur keyword once.
ClassifierMessages ==
    { "",
      "capital, more capital for my pitch",
      "hello there",
      "portfolio returns",
      "PORTFOLIO Returns",
      "market trends and portfolio tracking",
      "I want to invest in a startup",
      "capital returns for my startup",
      "pitch my startup to raise capital",
      "register to schedule a meeting",
      "need funding, sign up",
      "Schedule a Meeting about my Pitch Deck" }

AllMessages == Messages \cup ClassifierMessages

\* The values uuid.uuid4() can return
Uuids == {"u1", "u2"}

\* The conversation ids a caller can send: any string, the empty one and
\* one that uuid4 returns included
ClientIds == {"", "a"} \cup Uuids

\* An optional argument: None, or the one value given
None == <<>>
Some(v) == <<v>>
Args == {None} \cup { Some(c) : c \in ClientIds }

\* Python truth of an optional string: None and '' are false
Truthy(arg) == arg # None /\ arg[1] # ""

\* The two request threads of the server
Threads == {1, 2}

-----------------------------------------------------------------------------
(* The classifiers on the request messages.  Both are pure functions of    *)
(* their arguments, so each is evaluated once per argument and looked up.  *)

\* The values a user_type can take
UserTypes == {"investor", "entrepreneur", "unknown"}

\* The values the user_type parameter of identify_intent, generate_response
\* and get_suggestions is given here: the three roles, the name of the
\* general group, and a string that is no role
Roles == UserTypes \cup {"general", "admin"}

\* The values the intent parameter is given: the registered intents, the
\* sentinel, and a string that is no intent
Intents ==
    UNION { { intent_patterns[g][i].intent : i \in 1..Len(intent_patterns[g]) } :
                g \in DOMAIN intent_patterns }
        \cup {"general_inquiry", "small_talk"}

ScoreTable == [ m \in AllMessages |-> ScoreUserType(m) ]
IntentTable == [ m \in AllMessages |-> [ t \in Roles |-> identify_intent(m, t) ] ]

-----------------------------------------------------------------------------
(* State *)

VARIABLES
    conversation_history,  \* chatbot.conversation_history: id -> list reference
    user_profiles,         \* chatbot.user_profiles: id -> dict reference
    lists,                 \* the list objects: reference -> sequence of turns
    dicts,                 \* the profile dict objects: reference -> dict
    clock,                 \* the readings of datetime.datetime.now() so far
    frames,                \* per thread: the locals and position of its request
    last,                  \* the last request served and its response
    calls,                 \* history variable: per id, the process_message
                           \* calls that returned, in order of return
    raced,                 \* history variable: the ids on which two
                           \* process_message calls were in flight together
    ncalls                 \* process_message calls started

vars == << conversation_history, user_profiles, lists, dicts, clock,
           frames, last, calls, raced, ncalls >>

\* The objects of the chatbot as one value
Store ==
    [ conversation_history |-> conversation_history,
      user_profiles |-> user_profiles,
      lists |-> lists,
      dicts |-> dicts,
      clock |-> clock ]

\* InvestorEntrepreneurChatbot.__init__
EmptyStore ==
    [ conversation_history |-> <<>>,
      user_profiles |-> <<>>,
      lists |-> <<>>,
      dicts |-> <<>>,
      clock |-> 0 ]

\* d[k] = v on a dict d
DictSet(d, k, v) == [ x \in DOMAIN d \cup {k} |-> IF x = k THEN v ELSE d[x] ]

\* d.get(k, default)
DictGet(d, k, default) == IF k \in DOMAIN d THEN d[k] ELSE default

\* The locals of a request that no thread is serving
IdleFrame ==
    [ pc |-> "idle", message |-> "", arg |-> None,
      conversation_id |-> "", user_type |-> "", intent |-> "",
      response |-> "", ref |-> 0, result |-> <<>> ]

\* The locals at the entry of process_message(message, conversation_id)
CallFrame(message, arg) ==
    [ IdleFrame EXCEPT !.pc = "mint", !.message = message, !.arg = arg ]

-----------------------------------------------------------------------------
(* process_message, statement by statement.  Each step maps the store and  *)
(* the caller's locals to the store and locals after the statement.        *)

\* A turn of the history
Turn(role, message, timestamp) ==
    [ role |-> role, message |-> message, timestamp |-> timestamp ]

\* Mutant of identify_user_type: the profile is not consulted
identify_user_type_rescored(st, message, conversation_id) ==
    ScoreTable[message]

\* identify_user_type: the stored type when the id has a profile (whatever
\* that type is, 'unknown' included), else the role scored from the message
identify_user_type(st, message, conversation_id) ==
    IF conversation_id \in DOMAIN st.user_profiles
    THEN DictGet(st.dicts[st.user_profiles[conversation_id]], "type", "unknown")
    ELSE ScoreTable[message]

\* Mutant of mint_id: the id given is never used
mint_id_always(st, f, u) ==
    [ st |-> st,
      f |-> [ f EXCEPT !.conversation_id = u, !.pc = "hist_check" ] ]

\* lines 130-131: `if not conversation_id: conversation_id = str(uuid.uuid4())`,
\* u being the value uuid4 returns
mint_id(st, f, u) ==
    [ st |-> st,
      f |-> [ f EXCEPT !.conversation_id = IF Truthy(f.arg) THEN f.arg[1] ELSE u,
                       !.pc = "hist_check" ] ]

\* line 134: `if conversation_id not in self.conversation_history`
check_history(st, f) ==
    [ st |-> st,
      f |-> [ f EXCEPT !.pc =
                IF f.conversation_id \notin DOMAIN st.conversation_history
                THEN "hist_init" ELSE "user_lookup" ] ]

\* line 135: `self.conversation_history[conversation_id] = []`
init_history(st, f) ==
    [ st |-> [ st EXCEPT
                !.lists = Append(st.lists, <<>>),
                !.conversation_history =
                    DictSet(st.conversation_history, f.conversation_id,
                            Len(st.lists) + 1) ],
      f |-> [ f EXCEPT !.pc = "user_lookup" ] ]

\* Mutant of lookup_history: the list created last, whatever the id
lookup_history_latest(st, f, next) ==
    [ st |-> st,
      f |-> [ f EXCEPT !.ref = Len(st.lists), !.pc = next ] ]

\* lines 138 and 158: `self.conversation_history[conversation_id]`, the list
\* that .append is then called on
lookup_history(st, f, next) ==
    [ st |-> st,
      f |-> [ f EXCEPT !.ref = st.conversation_history[f.conversation_id],
                       !.pc = next ] ]

\* Mutant of append_turn: the turn is put at the front of the list
append_turn_front(st, f, role, message, next) ==
    [ st |-> [ st EXCEPT
                !.clock = st.clock + 1,
                !.lists[f.ref] = << Turn(role, message, st.clock + 1) >>
                                    \o st.lists[f.ref] ],
      f |-> [ f EXCEPT !.pc = next ] ]

\* lines 138-142 and 158-162: .append({'role', 'message', 'timestamp'}) on
\* the list looked up
append_turn(st, f, role, message, next) ==
    [ st |-> [ st EXCEPT
                !.clock = st.clock + 1,
                !.lists[f.ref] = Append(st.lists[f.ref],
                                        Turn(role, message, st.clock + 1)) ],
      f |-> [ f EXCEPT !.pc = next ] ]

\* Mutant of check_profile_known: looking up the profile of an id that has
\* none creates an empty one
check_profile_known_creating(st, f) ==
    IF f.conversation_id \in DOMAIN st.user_profiles
    THEN [ st |-> st, f |-> [ f EXCEPT !.pc = "type_get" ] ]
    ELSE LET user_type == ScoreTable[f.message]
         IN  [ st |-> [ st EXCEPT
                        !.dicts = Append(st.dicts, <<>>),
                        !.user_profiles =
                            DictSet(st.user_profiles, f.conversation_id,
                                    Len(st.dicts) + 1) ],
               f |-> [ f EXCEPT !.user_type = user_type,
                                !.intent = IntentTable[f.message][user_type],
                                !.pc = "prof_check" ] ]

\* lines 145-146, when line 95 finds no profile: the role is scored, then
\* the intent identified; when it finds one, line 96 is still to run
check_profile_known(st, f) ==
    IF f.conversation_id \in DOMAIN st.user_profiles
    THEN [ st |-> st, f |-> [ f EXCEPT !.pc = "type_get" ] ]
    ELSE LET user_type == identify_user_type(st, f.message, f.conversation_id)
         IN  [ st |-> st,
               f |-> [ f EXCEPT !.user_type = user_type,
                                !.intent = IntentTable[f.message][user_type],
                                !.pc = "prof_check" ] ]

\* line 96 and line 146: the stored type is read, then the intent identified
get_profile_type(st, f) ==
    LET user_type == identify_user_type(st, f.message, f.conversation_id)
    IN  [ st |-> st,
          f |-> [ f EXCEPT !.user_type = user_type,
                           !.intent = IntentTable[f.message][user_type],
                           !.pc = "prof_check" ] ]

\* line 149: `if conversation_id not in self.user_profiles`
check_profile(st, f) ==
    [ st |-> st,
      f |-> [ f EXCEPT !.pc =
                IF f.conversation_id \notin DOMAIN st.user_profiles
                THEN "prof_init" ELSE "type_lookup" ] ]

\* line 150: `self.user_profiles[conversation_id] = {}`
init_profile(st, f) ==
    [ st |-> [ st EXCEPT
                !.dicts = Append(st.dicts, <<>>),
                !.user_profiles =
                    DictSet(st.user_profiles, f.conversation_id,
                            Len(st.dicts) + 1) ],
      f |-> [ f EXCEPT !.pc = "type_lookup" ] ]

\* lines 151 and 152: `self.user_profiles[conversation_id]`, the dict that
\* is then stored into
lookup_profile(st, f, next) ==
    [ st |-> st,
      f |-> [ f EXCEPT !.ref = st.user_profiles[f.conversation_id],
                       !.pc = next ] ]

\* line 151: `[...]['type'] = user_type` on the dict looked up
store_type(st, f) ==
    [ st |-> [ st EXCEPT !.dicts[f.ref] = DictSet(st.dicts[f.ref], "type", f.user_type) ],
      f |-> [ f EXCEPT !.pc = "intent_lookup" ] ]

\* Mutant of store_intent: a last intent already stored is kept
store_intent_first(st, f) ==
    [ st |-> [ st EXCEPT !.dicts[f.ref] =
                            IF "last_intent" \in DOMAIN st.dicts[f.ref]
                            THEN st.dicts[f.ref]
                            ELSE DictSet(st.dicts[f.ref], "last_intent", f.intent) ],
      f |-> [ f EXCEPT !.response =
                            generate_response(f.user_type, f.intent, f.message,
                                              f.conversation_id),
                       !.pc = "bot_lookup" ] ]

\* line 152: `[...]['last_intent'] = intent` on the dict looked up, then
\* line 155: the response is generated
store_intent(st, f) ==
    [ st |-> [ st EXCEPT !.dicts[f.ref] =
                            DictSet(st.dicts[f.ref], "last_intent", f.intent) ],
      f |-> [ f EXCEPT !.response =
                            generate_response(f.user_type, f.intent, f.message,
                                              f.conversation_id),
                       !.pc = "bot_lookup" ] ]

\* lines 164-170: the dict returned
build_result(st, f) ==
    [ st |-> st,
      f |-> [ f EXCEPT !.result =
                            [ conversation_id |-> f.conversation_id,
                              user_type |-> f.user_type,
                              intent |-> f.intent,
                              response |-> f.response,
                              suggestions |-> get_suggestions(f.user_type, f.intent) ],
                       !.pc = "done" ] ]

\* Mutant of Step: the role and the intent are identified and stored before
\* the user turn is appended
Step_classify_first(st, f, u) ==
    CASE f.pc = "mint" ->
            LET m == mint_id(st, f, u)
                c == check_history(m.st, m.f)
            IN  IF c.f.pc = "user_lookup"
                THEN [ c EXCEPT !.f.pc = "type_check" ] ELSE c
      [] f.pc = "hist_init" ->
            [ init_history(st, f) EXCEPT !.f.pc = "type_check" ]
      [] f.pc = "type_check" -> check_profile_known(st, f)
      [] f.pc = "type_get" -> get_profile_type(st, f)
      [] f.pc = "prof_check" -> check_profile(st, f)
      [] f.pc = "prof_init" -> init_profile(st, f)
      [] f.pc = "type_lookup" -> lookup_profile(st, f, "type_store")
      [] f.pc = "type_store" -> store_type(st, f)
      [] f.pc = "intent_lookup" -> lookup_profile(st, f, "intent_store")
      [] f.pc = "intent_store" ->
            [ store_intent(st, f) EXCEPT !.f.pc = "user_lookup" ]
      [] f.pc = "user_lookup" -> lookup_history(st, f, "user_append")
      [] f.pc = "user_append" -> append_turn(st, f, "user", f.message, "bot_lookup")
      [] f.pc = "bot_lookup" -> lookup_history(st, f, "bot_append")
      [] f.pc = "bot_append" ->
            LET a == append_turn(st, f, "bot", f.response, "return")
            IN  build_result(a.st, a.f)

\* The next statement of the call with locals f that reads or writes the
\* store, with the statements on locals alone that come before or after it
\* (lines 130-131 before line 134, lines 164-170 after line 158)
Step(st, f, u) ==
    CASE f.pc = "mint" -> LET m == mint_id(st, f, u) IN check_history(m.st, m.f)
      [] f.pc = "hist_init" -> init_history(st, f)
      [] f.pc = "user_lookup" -> lookup_history(st, f, "user_append")
      [] f.pc = "user_append" -> append_turn(st, f, "user", f.message, "type_check")
      [] f.pc = "type_check" -> check_profile_known(st, f)
      [] f.pc = "type_get" -> get_profile_type(st, f)
      [] f.pc = "prof_check" -> check_profile(st, f)
      [] f.pc = "prof_init" -> init_profile(st, f)
      [] f.pc = "type_lookup" -> lookup_profile(st, f, "type_store")
      [] f.pc = "type_store" -> store_type(st, f)
      [] f.pc = "intent_lookup" -> lookup_profile(st, f, "intent_store")
      [] f.pc = "intent_store" -> store_intent(st, f)
      [] f.pc = "bot_lookup" -> lookup_history(st, f, "bot_append")
      [] f.pc = "bot_append" ->
            LET a == append_turn(st, f, "bot", f.response, "return")
            IN  build_result(a.st, a.f)

RECURSIVE Run(_, _, _)
\* The call run from its current statement to its return with no other
\* thread in between
Run(st, f, u) ==
    IF f.pc = "done" THEN [ st |-> st, f |-> f ]
    ELSE LET n == Step(st, f, u) IN Run(n.st, n.f, u)

\* process_message(message, arg) as one call
process_message(st, message, arg, u) ==
    Run(st, CallFrame(message, arg), u)

-----------------------------------------------------------------------------
(* Requests served one at a time *)

\* The ids of the calls in flight that have their id
InFlightIds ==
    { frames[t].conversation_id :
        t \in { x \in Threads : frames[x].pc \notin {"idle", "mint", "done"} } }

\* Mutant of FreshUuids: uuid4 can return an id that is in use
FreshUuids_any == Uuids

\* uuid4 returns an id that nothing holds yet
FreshUuids ==
    Uuids \ (DOMAIN conversation_history \cup DOMAIN user_profiles \cup InFlightIds)

\* The values line 131 can give: uuid4 is called only for a false id
MintChoices(arg) == IF Truthy(arg) THEN {""} ELSE FreshUuids

\* The store becomes st
Install(st) ==
    /\ conversation_history' = st.conversation_history
    /\ user_profiles' = st.user_profiles
    /\ lists' = st.lists
    /\ dicts' = st.dicts
    /\ clock' = st.clock

\* The record of a returned call, added to those of its id
Returned(f) ==
    LET c == f.conversation_id
        e == [ message |-> f.message, result |-> f.result ]
    IN  [ x \in DOMAIN calls \cup {c} |->
            IF x = c
            THEN Append(IF c \in DOMAIN calls THEN calls[c] ELSE <<>>, e)
            ELSE calls[x] ]

\* One whole process_message call made through `entry`, answered with
\* `status`
Serve(entry, message, arg, status) ==
    /\ ncalls < MaxCalls
    /\ \E u \in MintChoices(arg) :
        LET r == process_message(Store, message, arg, u)
        IN  /\ Install(r.st)
            /\ last' = [ entry |-> entry, arg |-> arg, status |-> status,
                         body |-> r.f.result,
                         store_unchanged |-> (r.st = Store) ]
            /\ calls' = Returned(r.f)
    /\ ncalls' = ncalls + 1
    /\ UNCHANGED << frames, raced >>

\* A request answered without a process_message call
Answer(entry, arg, status, body) ==
    /\ last' = [ entry |-> entry, arg |-> arg, status |-> status,
                 body |-> body, store_unchanged |-> TRUE ]
    /\ UNCHANGED << conversation_history, user_profiles, lists, dicts, clock,
                    frames, calls, raced, ncalls >>

\* chatbot.process_message(message, conversation_id) called directly
ProcessMessage(message, arg) ==
    Serve("process_message", message, arg, "returned")

\* POST /api/chat with body {'message': message, 'conversation_id': arg}
\* (a missing 'message' reads as '')
ChatApi(message, arg) ==
    IF message = ""
    THEN Answer("chat_api", arg, "400", [ error |-> "Message is required" ])
    ELSE Serve("chat_api", message, arg, "200")

\* POST /webhook with body {'event_type': event_type, 'payload': {'message':
\* message, 'conversation_id': arg}}
WebhookEndpoint(event_type, message, arg) ==
    IF event_type = "message"
    THEN Serve("webhook", message, arg, "200")
    ELSE Answer("webhook", None, "200",
                [ status |-> "received", event_type |-> event_type ])

\* Mutant of GetConversation: an id without a session is given an empty
\* history in the store (setdefault in place of get)
GetConversation_registering(conversation_id) ==
    IF conversation_id \in DOMAIN conversation_history
    THEN Answer("get_conversation", Some(conversation_id), "200",
                [ conversation_id |-> conversation_id,
                  history |-> lists[conversation_history[conversation_id]] ])
    ELSE /\ lists' = Append(lists, <<>>)
         /\ conversation_history' =
                DictSet(conversation_history, conversation_id, Len(lists) + 1)
         /\ last' = [ entry |-> "get_conversation", arg |-> Some(conversation_id),
                      status |-> "200",
                      body |-> [ conversation_id |-> conversation_id,
                                 history |-> <<>> ],
                      store_unchanged |-> FALSE ]
         /\ UNCHANGED << user_profiles, dicts, clock, frames, calls, raced,
                         ncalls >>

\* Mutant of GetConversation: an id without a session is answered 404
GetConversation_strict(conversation_id) ==
    IF conversation_id \in DOMAIN conversation_history
    THEN Answer("get_conversation", Some(conversation_id), "200",
                [ conversation_id |-> conversation_id,
                  history |-> lists[conversation_history[conversation_id]] ])
    ELSE Answer("get_conversation", Some(conversation_id), "404",
                [ error |-> "Conversation not found" ])

\* GET /api/conversation/<conversation_id>
GetConversation(conversation_id) ==
    Answer("get_conversation", Some(conversation_id), "200",
           [ conversation_id |-> conversation_id,
             history |-> IF conversation_id \in DOMAIN conversation_history
                         THEN lists[conversation_history[conversation_id]]
                         ELSE <<>> ])

EventTypes == {"message", "ping"}

\* The ids a request path can carry: the route's <conversation_id> segment
\* matches one character or more
PathIds == ClientIds \ {""}

Init ==
    /\ conversation_history = EmptyStore.conversation_history
    /\ user_profiles = EmptyStore.user_profiles
    /\ lists = EmptyStore.lists
    /\ dicts = EmptyStore.dicts
    /\ clock = EmptyStore.clock
    /\ frames = [ t \in Threads |-> IdleFrame ]
    /\ last = [ entry |-> "", arg |-> None, status |-> "", body |-> <<>>,
                store_unchanged |-> TRUE ]
    /\ calls = <<>>
    /\ raced = {}
    /\ ncalls = 0

Next ==
    \/ \E message \in Messages, arg \in Args : ProcessMessage(message, arg)
    \/ \E message \in Messages, arg \in Args : ChatApi(message, arg)
    \/ \E message \in Messages, arg \in Args :
            WebhookEndpoint("message", message, arg)
    \/ \E event_type \in EventTypes \ {"message"} :
            WebhookEndpoint(event_type, "", None)
    \/ \E conversation_id \in PathIds : GetConversation(conversation_id)

Spec == Init /\ [][Next]_vars

-----------------------------------------------------------------------------
(* Requests served by concurrent threads: app.run serves each request on   *)
(* a thread of its own, process_message takes no lock, and a thread can be *)
(* preempted between any two of its statements.                            *)

\* process_message calls started in one behaviour of the concurrent server
MaxConcCalls == 2

\* The messages and ids of the concurrent requests
ConcMessages ==
    { "I need funding for my startup",
      "portfolio tracking and investment performance" }
ConcArgs == { None, Some("a") }

\* Thread t takes a request that leads to process_message(message, arg)
Begin(t, message, arg) ==
    /\ frames[t].pc = "idle"
    /\ ncalls < MaxConcCalls
    /\ frames' = [ frames EXCEPT ![t] = CallFrame(message, arg) ]
    /\ ncalls' = ncalls + 1
    /\ UNCHANGED << conversation_history, user_profiles, lists, dicts, clock,
                    last, calls, raced >>

\* POST /api/chat on thread t with a message that passes line 480
ConcChatApi(t, message, arg) ==
    /\ message # ""
    /\ Begin(t, message, arg)

\* POST /webhook with a 'message' event on thread t
ConcWebhook(t, message, arg) == Begin(t, message, arg)

\* Thread t runs its next statement of process_message.  The statement that
\* gives the call its id notes a race when another call holds that id; the
\* return statement answers the request and frees the thread.
Statement(t) ==
    /\ frames[t].pc \notin {"idle", "done"}
    /\ \E u \in (IF frames[t].pc = "mint" THEN MintChoices(frames[t].arg) ELSE {""}) :
        LET n == Step(Store, frames[t], u)
        IN  /\ Install(n.st)
            /\ raced' = IF frames[t].pc = "mint" /\ n.f.conversation_id \in InFlightIds
                        THEN raced \cup {n.f.conversation_id}
                        ELSE raced
            /\ IF n.f.pc = "done"
               THEN /\ frames' = [ frames EXCEPT ![t] = IdleFrame ]
                    /\ calls' = Returned(n.f)
               ELSE /\ frames' = [ frames EXCEPT ![t] = n.f ]
                    /\ UNCHANGED calls
    /\ UNCHANGED << last, ncalls >>

ConcNext ==
    \/ \E t \in Threads, message \in ConcMessages, arg \in ConcArgs :
            ConcChatApi(t, message, arg)
    \/ \E t \in Threads, message \in ConcMessages, arg \in ConcArgs :
            ConcWebhook(t, message, arg)
    \/ \E t \in Threads : Statement(t)

ConcSpec == Init /\ [][ConcNext]_vars

-----------------------------------------------------------------------------
(* The classifiers, the response dispatch and the suggestions called on    *)
(* their own: the locals of thread 1 hold the arguments, one call is made, *)
(* and its return value is left in the local of that name.                 *)

\* The stores the functions are called on: the one of a new chatbot and
\* those left by one call on id "a"
FnStores ==
    {EmptyStore} \cup
        { process_message(EmptyStore, m, Some("a"), "").st : m \in Messages }

\* The arguments: message, conversation_id, user_type, intent
FnFrames ==
    { [ IdleFrame EXCEPT !.message = m, !.conversation_id = "a",
                         !.user_type = t, !.intent = i ] :
        m \in ClassifierMessages, t \in Roles, i \in Intents }

FnInit ==
    /\ \E st \in FnStores :
        /\ conversation_history = st.conversation_history
        /\ user_profiles = st.user_profiles
        /\ lists = st.lists
        /\ dicts = st.dicts
        /\ clock = st.clock
    /\ \E f \in FnFrames :
        frames = [ t \in Threads |-> IF t = 1 THEN f ELSE IdleFrame ]
    /\ last = [ entry |-> "", arg |-> None, status |-> "", body |-> <<>>,
                store_unchanged |-> TRUE ]
    /\ calls = <<>>
    /\ raced = {}
    /\ ncalls = 0

\* The call returns: its value (or what it stored in its frame) is f
FnReturn(f) ==
    /\ frames[1].pc = "idle"
    /\ frames' = [ frames EXCEPT ![1] = f ]
    /\ UNCHANGED << conversation_history, user_profiles, lists, dicts, clock,
                    last, calls, raced, ncalls >>

\* chatbot.identify_user_type(message, conversation_id)
IdentifyUserType ==
    LET f == frames[1]
    IN  FnReturn([ f EXCEPT
            !.user_type = identify_user_type(Store, f.message, f.conversation_id),
            !.pc = "identify_user_type" ])

\* chatbot.identify_intent(message, user_type)
IdentifyIntent ==
    LET f == frames[1]
    IN  FnReturn([ f EXCEPT
            !.intent = IntentTable[f.message][f.user_type],
            !.pc = "identify_intent" ])

\* chatbot.generate_response(user_type, intent, message, conversation_id)
GenerateResponse ==
    LET f == frames[1]
    IN  FnReturn([ f EXCEPT
            !.response = generate_response(f.user_type, f.intent, f.message,
                                           f.conversation_id),
            !.pc = "generate_response" ])

\* chatbot.get_suggestions(user_type, intent)
GetSuggestions ==
    LET f == frames[1]
    IN  FnReturn([ f EXCEPT
            !.result = get_suggestions(f.user_type, f.intent),
            !.pc = "get_suggestions" ])

FnNext ==
    \/ IdentifyUserType
    \/ IdentifyIntent
    \/ GenerateResponse
    \/ GetSuggestions

FnSpec == FnInit /\ [][FnNext]_vars

-----------------------------------------------------------------------------
(* Properties *)

\* The history of id c
History(c) == lists[conversation_history[c]]

\* A history without its timestamps
NoStamps(h) ==
    [ k \in 1..Len(h) |-> [ role |-> h[k].role, message |-> h[k].message ] ]

StickyRoles == {"investor", "entrepreneur"}

\* C1: with the calls on an id made one after another, once a call has
\* returned (and so stored) role investor or entrepreneur for the id, every
\* later call on the id returns that role, whatever its message.
C1_StickyRole ==
    \A c \in DOMAIN calls : \A i, j \in 1..Len(calls[c]) :
        (i < j /\ calls[c][i].result.user_type \in StickyRoles)
            => calls[c][j].result.user_type = calls[c][i].result.user_type

\* C1 happens: a call returned investor and a later call on the same id
\* carried a message that scores entrepreneur (or the other way round).
C1_Witness ==
    \E c \in DOMAIN calls : \E i, j \in 1..Len(calls[c]) :
        /\ i < j
        /\ calls[c][i].result.user_type \in StickyRoles
        /\ ScoreTable[calls[c][j].message] \in
                StickyRoles \ {calls[c][i].result.user_type}

\* C2: a call with the empty message is refused and leaves the store as it
\* was: no process_message call with an empty message ever returns a result,
\* and no history holds a user turn with an empty message.
C2_EmptyMessageRefused ==
    /\ \A c \in DOMAIN calls : \A i \in 1..Len(calls[c]) : calls[c][i].message # ""
    /\ \A c \in DOMAIN conversation_history : \A k \in 1..Len(History(c)) :
            History(c)[k].role = "user" => History(c)[k].message # ""

\* C3: the history read back for an id after its N calls has 2N turns, turn
\* 2k-1 the user turn with the k-th message and turn 2k the bot turn with
\* the response the k-th call returned.
C3_RoundTrip ==
    last.entry = "get_conversation" =>
        LET c == last.arg[1]
            h == last.body.history
            n == IF c \in DOMAIN calls THEN Len(calls[c]) ELSE 0
        IN  /\ Len(h) = 2 * n
            /\ \A k \in 1..n :
                /\ h[2 * k - 1].role = "user"
                /\ h[2 * k - 1].message = calls[c][k].message
                /\ h[2 * k].role = "bot"
                /\ h[2 * k].message = calls[c][k].result.response

\* C3 happens: the history of an id is read back after two calls on it
\* with different messages.
C3_Witness ==
    /\ last.entry = "get_conversation"
    /\ last.arg[1] \in DOMAIN calls
    /\ Len(calls[last.arg[1]]) >= 2
    /\ calls[last.arg[1]][1].message # calls[last.arg[1]][2].message
    /\ Len(last.body.history) = 4

\* C4: a stored role of unknown does not stick: the call after one that
\* returned unknown, with a message that scores investor or entrepreneur,
\* returns the scored role.
C4_UnknownIsRescored ==
    \A c \in DOMAIN calls : \A i \in 1..Len(calls[c]) :
        (i > 1 /\ calls[c][i - 1].result.user_type = "unknown"
               /\ ScoreTable[calls[c][i].message] \in StickyRoles)
            => calls[c][i].result.user_type = ScoreTable[calls[c][i].message]

\* C5: on a fresh session the message "I'm looking for startup investment
\* opportunities" resolves to role investor and intent seeking_startups.
C5_InvestorExample ==
    \A c \in DOMAIN calls :
        calls[c][1].message = "I'm looking for startup investment opportunities"
            => /\ calls[c][1].result.user_type = "investor"
               /\ calls[c][1].result.intent = "seeking_startups"

\* C6: on a fresh session the message "I need funding for my startup"
\* resolves to role entrepreneur and intent seeking_funding.
C6_EntrepreneurExample ==
    \A c \in DOMAIN calls :
        calls[c][1].message = "I need funding for my startup"
            => /\ calls[c][1].result.user_type = "entrepreneur"
               /\ calls[c][1].result.intent = "seeking_funding"

\* C6 happens: the first call on an id carried the message.
C6_Witness ==
    \E c \in DOMAIN calls :
        /\ calls[c][1].message = "I need funding for my startup"
        /\ Len(History(c)) >= 2

\* Per request message: whether it holds no role keyword, and the first
\* intent of the general group that matches it ("" when none does)
NoRoleKeyword ==
    [ m \in Messages |->
        /\ KeywordScore(investor_keywords, lower(m)) = 0
        /\ KeywordScore(entrepreneur_keywords, lower(m)) = 0 ]
GeneralIntent ==
    [ m \in Messages |-> ScanGroup(intent_patterns["general"], lower(m)) ]

\* C7: on a fresh session a message with no role keyword that matches a
\* general pattern resolves to role unknown and to the first matching
\* general intent, not to general_inquiry; "how does the platform work"
\* resolves to platform_info.
C7_GeneralFallback ==
    \A c \in DOMAIN calls :
        LET m == calls[c][1].message
            r == calls[c][1].result
        IN  /\ (NoRoleKeyword[m] /\ GeneralIntent[m] # "")
                => /\ r.user_type = "unknown"
                   /\ r.intent = GeneralIntent[m]
                   /\ r.intent # "general_inquiry"
            /\ m = "how does the platform work"
                => r.user_type = "unknown" /\ r.intent = "platform_info"

\* C7 happens: the first call on an id carried "how does the platform work".
C7_Witness ==
    \E c \in DOMAIN calls :
        /\ calls[c][1].message = "how does the platform work"
        /\ NoRoleKeyword[calls[c][1].message]
        /\ calls[c][1].result.response =
                "**Welcome to the Investor-Entrepreneur Platform!**"

\* The step is a process_message call that returned
CallReturned == ncalls' = ncalls + 1

\* The message of the call that has just returned
ReturnedMessage ==
    calls'[last'.body.conversation_id][Len(calls'[last'.body.conversation_id])].message

\* The call that has just returned gave what the same message gives when
\* sent, in the same store, with no id: role, intent, response, suggestions
\* and the history of the new session (timestamps apart)
SameAsWithNoId ==
    \A u \in FreshUuids :
        LET r == process_message(Store, ReturnedMessage, None, u)
            b == last'.body
        IN  /\ r.f.result.user_type = b.user_type
            /\ r.f.result.intent = b.intent
            /\ r.f.result.response = b.response
            /\ r.f.result.suggestions = b.suggestions
            /\ NoStamps(r.st.lists[r.st.conversation_history[u]])
                 = NoStamps(lists'[conversation_history'[b.conversation_id]])
            /\ Len(lists'[conversation_history'[b.conversation_id]]) = 2

\* The id given in the call that has just returned was not in the store
UnseenId ==
    /\ last'.arg # None
    /\ last'.arg[1] \notin DOMAIN conversation_history
    /\ last'.arg[1] \notin DOMAIN user_profiles

\* C8 as stated: a call with a non-empty message and an explicit id the
\* store has never seen returns that id and is otherwise as the same
\* message sent with no id.
C8_UnseenIdAsStated ==
    [][ (CallReturned /\ UnseenId /\ ReturnedMessage # "")
            => /\ last'.body.conversation_id = last'.arg[1]
               /\ last'.arg[1] \in DOMAIN conversation_history'
               /\ SameAsWithNoId ]_vars

\* C8 amended: the same for an explicit id that is not the empty string.
C8_UnseenId ==
    [][ (CallReturned /\ UnseenId /\ Truthy(last'.arg) /\ ReturnedMessage # "")
            => /\ last'.body.conversation_id = last'.arg[1]
               /\ last'.arg[1] \in DOMAIN conversation_history'
               /\ SameAsWithNoId ]_vars

\* C8 happens: the last call gave a non-empty id for the first time, with
\* a non-empty message, while the store held another session and uuid4
\* still had an id to give.
C8_Witness ==
    /\ last.entry \in {"process_message", "chat_api", "webhook"}
    /\ Truthy(last.arg)
    /\ last.arg[1] \in DOMAIN calls
    /\ Len(calls[last.arg[1]]) = 1
    /\ calls[last.arg[1]][1].message # ""
    /\ last.body.conversation_id = last.arg[1]
    /\ Len(History(last.arg[1])) = 2
    /\ DOMAIN conversation_history # {last.arg[1]}
    /\ FreshUuids # {}

RECURSIVE AloneStore(_, _)
\* The store after the first n returned calls of id c, run one after
\* another on a chatbot that serves nothing else
AloneStore(c, n) ==
    IF n = 0 THEN EmptyStore
    ELSE process_message(AloneStore(c, n - 1), calls[c][n].message, Some(c), "").st

\* What a store holds for id c: its history (timestamps apart) and profile
View(st, c) ==
    [ history |-> NoStamps(st.lists[st.conversation_history[c]]),
      profile |-> st.dicts[st.user_profiles[c]] ]

\* C9: whatever calls on other ids run in between, an id whose own calls
\* never overlapped holds, whenever none of its calls is in flight, the
\* history, role and last intent that its calls give when run alone.
C9_Isolation ==
    \A c \in DOMAIN conversation_history :
        (c \notin raced /\ c \notin InFlightIds)
            => /\ c \in DOMAIN calls
               /\ c \in DOMAIN user_profiles
               /\ View(Store, c) = View(AloneStore(c, Len(calls[c])), c)

\* C9 happens: calls on two ids have returned that ran interleaved (the
\* first turn of b was appended between the two turns of a call on a).
C9_Witness ==
    \E a, b \in DOMAIN calls :
        /\ a # b
        /\ InFlightIds = {}
        /\ raced = {}
        /\ Len(History(a)) = 2 /\ Len(History(b)) = 2
        /\ History(a)[1].timestamp < History(b)[1].timestamp
        /\ History(b)[1].timestamp < History(a)[2].timestamp
        /\ History(a)[2].timestamp < History(b)[2].timestamp

\* C10: no update is lost when calls on one id race: once the calls on an
\* id have returned, its history holds the user turn and the bot turn of
\* each of them.
C10_NoLostUpdate ==
    \A c \in DOMAIN calls :
        c \notin InFlightIds =>
            /\ Len(History(c)) = 2 * Len(calls[c])
            /\ \A i \in 1..Len(calls[c]) :
                /\ \E k \in 1..Len(History(c)) :
                    /\ History(c)[k].role = "user"
                    /\ History(c)[k].message = calls[c][i].message
                /\ \E k \in 1..Len(History(c)) :
                    /\ History(c)[k].role = "bot"
                    /\ History(c)[k].message = calls[c][i].result.response

\* C11: reading a history back never errors: the request is answered 200
\* with the id asked for; for an id that no returned process_message call
\* has used the history is the empty sequence, and for a used id it is the
\* id's stored turns, in the order they were appended.
C11_ReadBackNeverErrors ==
    last.entry = "get_conversation" =>
        LET c == last.arg[1]
        IN  /\ last.status = "200"
            /\ last.body.conversation_id = c
            /\ c \notin DOMAIN calls => last.body.history = <<>>
            /\ c \in DOMAIN calls =>
                    /\ last.body.history = History(c)
                    /\ Len(last.body.history) = 2 * Len(calls[c])
                    /\ \A k \in 1..(Len(last.body.history) - 1) :
                            last.body.history[k].timestamp
                                < last.body.history[k + 1].timestamp

\* C11 happens: the history of an id that no call has used is read back
\* while the store holds the session of another id.
C11_Witness ==
    /\ last.entry = "get_conversation"
    /\ last.arg[1] \notin DOMAIN calls
    /\ last.arg[1] \notin DOMAIN conversation_history
    /\ DOMAIN conversation_history # {}
    /\ last.body.history = <<>>

\* Per classifier message: the message with case ignored, and the number
\* of keywords of each role that occur in it
Folded == [ m \in ClassifierMessages |-> lower(m) ]
InvestorScore ==
    [ m \in ClassifierMessages |-> KeywordScore(investor_keywords, Folded[m]) ]
EntrepreneurScore ==
    [ m \in ClassifierMessages |-> KeywordScore(entrepreneur_keywords, Folded[m]) ]

\* C12: identify_user_type always returns one of the three roles; for an
\* id that has no profile in the store it returns investor exactly when the
\* investor score of the message is strictly the higher, entrepreneur
\* exactly when the entrepreneur score is strictly the higher, and unknown
\* exactly on a tie (0-0 included); messages that differ in case only get
\* the same role.
C12_ScoreDecides ==
    frames[1].pc = "identify_user_type" =>
        LET m == frames[1].message
            r == frames[1].user_type
        IN  /\ r \in UserTypes
            /\ frames[1].conversation_id \notin DOMAIN user_profiles =>
                /\ r = "investor" <=> InvestorScore[m] > EntrepreneurScore[m]
                /\ r = "entrepreneur" <=> EntrepreneurScore[m] > InvestorScore[m]
                /\ r = "unknown" <=> InvestorScore[m] = EntrepreneurScore[m]
                /\ \A m2 \in ClassifierMessages :
                        Folded[m2] = Folded[m] => ScoreTable[m2] = r

\* C12 happens: a message with two investor keywords in upper case and no
\* entrepreneur keyword was classified for an id without a profile.
C12_Witness ==
    /\ frames[1].pc = "identify_user_type"
    /\ frames[1].conversation_id \notin DOMAIN user_profiles
    /\ frames[1].message = "PORTFOLIO Returns"
    /\ InvestorScore[frames[1].message] = 2
    /\ frames[1].user_type = "investor"

\* The (intent, pattern) positions of a group whose pattern matches the
\* message, and the intent at the first of them in registration order
\* ("" when there is none)
MatchingPositions(g, m) ==
    { x \in UNION { { <<i, p>> : p \in 1..Len(intent_patterns[g][i].patterns) } :
                        i \in 1..Len(intent_patterns[g]) } :
        re_search(intent_patterns[g][x[1]].patterns[x[2]], Folded[m]) }
FirstMatch ==
    [ m \in ClassifierMessages |-> [ g \in DOMAIN intent_patterns |->
        LET pos == MatchingPositions(g, m)
        IN  IF pos = {} THEN ""
            ELSE LET first == CHOOSE x \in pos : \A y \in pos :
                                \/ x[1] < y[1]
                                \/ x[1] = y[1] /\ x[2] <= y[2]
                 IN  intent_patterns[g][first[1]].intent ] ]

\* The intents of a group with a pattern that matches the message
MatchedIntents ==
    [ m \in ClassifierMessages |-> [ g \in DOMAIN intent_patterns |->
        { intent_patterns[g][x[1]].intent : x \in MatchingPositions(g, m) } ] ]

\* C13: identify_intent returns the intent of the first matching pattern of
\* the role's own group, scanned intent by intent and pattern by pattern in
\* registration order; when the role has no group or no pattern of its
\* group matches, that of the first matching pattern of the general group;
\* general_inquiry when nothing matches.
C13_FirstMatchWins ==
    frames[1].pc = "identify_intent" =>
        LET m == frames[1].message
            t == frames[1].user_type
            own == IF t \in DOMAIN intent_patterns THEN FirstMatch[m][t] ELSE ""
            gen == FirstMatch[m]["general"]
        IN  frames[1].intent =
                IF own # "" THEN own
                ELSE IF gen # "" THEN gen
                ELSE "general_inquiry"

\* C13 happens: patterns of two intents of the investor group match the
\* message, the later-registered one (market_analysis) earlier in the
\* text, and the earlier-registered one is returned.
C13_Witness ==
    /\ frames[1].pc = "identify_intent"
    /\ frames[1].user_type = "investor"
    /\ frames[1].message = "market trends and portfolio tracking"
    /\ MatchedIntents[frames[1].message]["investor"]
            = {"portfolio_inquiry", "market_analysis"}
    /\ frames[1].intent = "portfolio_inquiry"

\* The generator registered under (group, intent); "" when there is none
Registered(group, intent) ==
    IF group \in DOMAIN responses /\ intent \in DOMAIN responses[group]
    THEN responses[group][intent]
    ELSE ""

\* The greeting of the default response, per role
Greeting ==
    [ t \in Roles |->
        IF t = "investor" THEN "As an investor"
        ELSE IF t = "entrepreneur" THEN "As an entrepreneur"
        ELSE IF t = "unknown"
        THEN "Welcome! Whether you're an investor or entrepreneur"
        ELSE "Hello" ]

\* C14: generate_response returns the text of the generator registered
\* under (role, intent) when there is one, else that of the generator
\* registered under (general, intent) when there is one, else the default
\* response, which opens with the greeting of the role (the generic one
\* for a role that is none of investor, entrepreneur, unknown).
C14_Dispatch ==
    frames[1].pc = "generate_response" =>
        LET f == frames[1]
            own == Registered(f.user_type, f.intent)
            gen == Registered("general", f.intent)
        IN  /\ own # "" =>
                f.response = CallGenerator(own, f.message, f.conversation_id)
            /\ (own = "" /\ gen # "") =>
                f.response = CallGenerator(gen, f.message, f.conversation_id)
            /\ (own = "" /\ gen = "") =>
                f.response = Greeting[f.user_type]
                    \o ", I'm here to help you succeed on our platform!"
            /\ (f.user_type = "investor" /\ f.intent = "seeking_startups") =>
                f.response = "**Startup Investment Opportunities**"
            /\ (f.user_type = "investor" /\ f.intent = "registration") =>
                f.response = "**Platform Registration**"

\* C14 happens: a response was generated for a string that is no role and
\* an intent registered for entrepreneurs only, so both lookups failed and
\* the default response came with the generic greeting.
C14_Witness ==
    /\ frames[1].pc = "generate_response"
    /\ frames[1].user_type = "admin"
    /\ frames[1].intent = "seeking_funding"
    /\ Registered("entrepreneur", frames[1].intent) # ""
    /\ frames[1].response = "Hello, I'm here to help you succeed on our platform!"

\* The suggestions returned are those of the table for the role, those of
\* unknown for a role without an entry, whatever the intent is
SuggestionsByRoleOnly ==
    LET f == frames[1]
    IN  /\ f.user_type \in {"investor", "entrepreneur", "unknown"} =>
                f.result = suggestions[f.user_type]
        /\ f.user_type \notin {"investor", "entrepreneur", "unknown"} =>
                f.result = suggestions["unknown"]
        /\ \A i \in Intents : get_suggestions(f.user_type, i) = f.result

\* C15 as stated: get_suggestions returns 4 prompts for investor and for
\* entrepreneur and 3 unknown-role prompts for unknown and for any other
\* role, whatever the intent is.
C15_SuggestionsAsStated ==
    frames[1].pc = "get_suggestions" =>
        /\ SuggestionsByRoleOnly
        /\ Len(frames[1].result) =
                IF frames[1].user_type \in {"investor", "entrepreneur"}
                THEN 4 ELSE 3

\* C15 amended: get_suggestions returns 4 prompts for every role: those of
\* investor, those of entrepreneur, and the 4 unknown-role prompts for
\* unknown and for any other role, whatever the intent is.
C15_Suggestions ==
    frames[1].pc = "get_suggestions" =>
        /\ SuggestionsByRoleOnly
        /\ Len(frames[1].result) = 4
        /\ frames[1].user_type = "investor" =>
                frames[1].result[1] = "Show me startup opportunities in tech"
        /\ frames[1].user_type = "entrepreneur" =>
                frames[1].result[1] = "Help me prepare my pitch deck"
        /\ frames[1].user_type \notin {"investor", "entrepreneur"} =>
                frames[1].result[4] = "How do I get started?"

\* C15 happens: suggestions were asked for a string that is no role, with
\* a registered intent, and the unknown-role prompts came back.
C15_Witness ==
    /\ frames[1].pc = "get_suggestions"
    /\ frames[1].user_type = "admin"
    /\ frames[1].intent = "market_analysis"
    /\ frames[1].result = suggestions["unknown"]
    /\ Len(frames[1].result) = 4

\* The intents that have patterns
RegisteredIntents == Intents \ {"general_inquiry", "small_talk"}

\* Per request message and role: no pattern of the groups that
\* identify_intent scans for the role matches the message
Unmatched ==
    [ m \in Messages |-> [ t \in UserTypes |->
        /\ t \in DOMAIN intent_patterns =>
                ScanGroup(intent_patterns[t], lower(m)) = ""
        /\ ScanGroup(intent_patterns["general"], lower(m)) = "" ] ]

\* C16: a process_message call with a non-empty message never fails: from
\* every reachable store, for every non-empty message and every id (absent,
\* unseen or known) the call runs to its return statement, and every call
\* that returned gave a role among investor, entrepreneur, unknown and an
\* intent that is registered or general_inquiry; a message that matches no
\* pattern scanned for its role gave general_inquiry and the default
\* response.
C16_TotalOnNonEmpty ==
    /\ \A m \in Messages \ {""}, arg \in Args : \A u \in MintChoices(arg) :
            \A r \in { process_message(Store, m, arg, u) } :
                /\ r.f.pc = "done"
                /\ r.f.result.user_type \in UserTypes
                /\ r.f.result.intent \in RegisteredIntents \cup {"general_inquiry"}
    /\ \A c \in DOMAIN calls : \A i \in 1..Len(calls[c]) :
            LET m == calls[c][i].message
                r == calls[c][i].result
            IN  m # "" =>
                    /\ r.user_type \in UserTypes
                    /\ r.intent \in RegisteredIntents \cup {"general_inquiry"}
                    /\ Unmatched[m][r.user_type] =>
                            /\ r.intent = "general_inquiry"
                            /\ r.response = Greeting[r.user_type]
                                \o ", I'm here to help you succeed on our platform!"

\* C16 happens: the second call on an id carried a non-empty message that
\* matches no pattern scanned for the role the id has, and returned
\* general_inquiry with the default response.
C16_Witness ==
    \E c \in DOMAIN calls :
        /\ Len(calls[c]) = 2
        /\ calls[c][2].message # ""
        /\ Unmatched[calls[c][2].message][calls[c][2].result.user_type]
        /\ calls[c][2].result.intent = "general_inquiry"
        /\ calls[c][2].result.response =
                "Welcome! Whether you're an investor or entrepreneur, I'm here to help you succeed on our platform!"

\* C17: a process_message call made with no conversation id (None, or the
\* empty string, which line 130 treats alike) returns an id that was the
\* key of no session, no profile and no earlier call; when it returns, the
\* history of that id holds exactly the user turn and the bot turn of this
\* call, and the histories the store held are as they were.
C17_MintedIdIsFresh ==
    [][ (CallReturned /\ ~Truthy(last'.arg)) =>
            LET c == last'.body.conversation_id
                h == lists'[conversation_history'[c]]
            IN  /\ c \notin DOMAIN conversation_history
                /\ c \notin DOMAIN user_profiles
                /\ c \notin DOMAIN calls
                /\ Len(h) = 2
                /\ h[1].role = "user" /\ h[1].message = ReturnedMessage
                /\ h[2].role = "bot" /\ h[2].message = last'.body.response
                /\ \A d \in DOMAIN conversation_history :
                        lists'[conversation_history'[d]] = History(d) ]_vars

\* C17 happens: a call with no id has returned while the store held the
\* session of an earlier call, and its own session holds two turns.
C17_Witness ==
    /\ last.entry \in {"process_message", "chat_api", "webhook"}
    /\ last.arg = None
    /\ last.status # "400"
    /\ last.body.conversation_id \in Uuids
    /\ Len(History(last.body.conversation_id)) = 2
    /\ \E d \in DOMAIN conversation_history :
            /\ d # last.body.conversation_id
            /\ History(d)[1].timestamp
                    < History(last.body.conversation_id)[1].timestamp

\* Sequence h is a prefix of sequence g
IsPrefix(h, g) ==
    /\ Len(h) <= Len(g)
    /\ \A k \in 1..Len(h) : g[k] = h[k]

\* C18: history is append-only: in every step of the server, whatever
\* requests are being served, every id that has a history keeps one, and
\* the history it had is a prefix of the history it has after the step.
C18_AppendOnly ==
    [][ \A c \in DOMAIN conversation_history :
            /\ c \in DOMAIN conversation_history'
            /\ IsPrefix(History(c), lists'[conversation_history'[c]]) ]_vars

\* The profile stored for id c
Profile(c) == dicts[user_profiles[c]]

\* C19: with the calls served one at a time, after each call on an id the
\* profile of the id holds the role and the intent that its latest call
\* returned, and the intent every call returned is the one identified from
\* that call's message and role, whatever intent was stored before.
C19_PersistedPerTurn ==
    \A c \in DOMAIN calls :
        LET n == Len(calls[c])
        IN  /\ c \in DOMAIN user_profiles
            /\ DOMAIN Profile(c) = {"type", "last_intent"}
            /\ Profile(c).type = calls[c][n].result.user_type
            /\ Profile(c).last_intent = calls[c][n].result.intent
            /\ \A i \in 1..n :
                    calls[c][i].result.intent =
                        IntentTable[calls[c][i].message][calls[c][i].result.user_type]

\* C19 happens: two calls on an id returned the same role and different
\* intents, and the profile holds the second intent.
C19_Witness ==
    \E c \in DOMAIN calls :
        /\ Len(calls[c]) = 2
        /\ calls[c][1].result.user_type = calls[c][2].result.user_type
        /\ calls[c][1].result.intent # calls[c][2].result.intent
        /\ calls[c][2].result.intent # "general_inquiry"
        /\ Profile(c).last_intent = calls[c][2].result.intent

\* The returned calls, each as its id and its position among the calls of
\* the id
ReturnedCalls ==
    UNION { { <<c, i>> : i \in 1..Len(calls[c]) } : c \in DOMAIN calls }

\* C20: any two process_message calls that returned the same role and the
\* same intent returned the same response text and the same suggestions,
\* whatever their messages, ids and earlier histories were.
C20_Deterministic ==
    \A x, y \in ReturnedCalls :
        LET r == calls[x[1]][x[2]].result
            q == calls[y[1]][y[2]].result
        IN  (r.user_type = q.user_type /\ r.intent = q.intent)
                => /\ r.response = q.response
                   /\ r.suggestions = q.suggestions

\* C20 happens: two calls with different non-empty messages, the second
\* on a history that the first did not have, returned the same role and
\* intent, and the same response.
C20_Witness ==
    \E x, y \in ReturnedCalls :
        /\ x # y
        /\ calls[x[1]][x[2]].message # ""
        /\ calls[y[1]][y[2]].message # ""
        /\ calls[x[1]][x[2]].message # calls[y[1]][y[2]].message
        /\ calls[x[1]][x[2]].result.user_type = calls[y[1]][y[2]].result.user_type
        /\ calls[x[1]][x[2]].result.intent = calls[y[1]][y[2]].result.intent
        /\ calls[x[1]][x[2]].result.response = calls[y[1]][y[2]].result.response

\* The number of calls on id c that have returned
NReturned(c) == IF c \in DOMAIN calls THEN Len(calls[c]) ELSE 0

\* The positions of a call, by what it has done: before the user turn is
\* appended, before the role and the intent are identified, before the
\* role is stored, before the intent is stored, before the bot turn is
\* appended
BeforeUserTurn == {"hist_init", "user_lookup", "user_append"}
BeforeClassify == {"type_check", "type_get"}
BeforeTypeStore == {"prof_check", "prof_init", "type_lookup", "type_store"}
BeforeIntentStore == {"intent_lookup", "intent_store"}
BeforeBotTurn == {"bot_lookup", "bot_append"}

\* C21: the steps of a call happen in the order: the id is resolved and
\* its history created, the user turn is appended, role and intent are
\* identified, role and then intent are stored in the profile, the
\* response is generated, the bot turn is appended and the call returns.
\* For a call in flight on an id that no other call uses at the same time,
\* with n calls on the id returned before: until the user turn is appended
\* the history (if any) has 2n turns, nothing is identified and, on the
\* first call of the id, there is no profile; from then on the history has
\* 2n+1 turns, the last one the user turn of this call, until the call
\* returns; role and intent are identified only after that; the profile
\* holds the role before the intent is stored and both, with the response
\* generated, before the bot turn is appended; the first call of an id
\* finds no role stored until it stores its own.
C21_StepOrder ==
    \A t \in Threads :
        LET f == frames[t]
            c == f.conversation_id
            n == NReturned(c)
        IN  (f.pc \notin {"idle", "mint", "done"} /\ c \notin raced) =>
            /\ f.pc \in BeforeUserTurn =>
                    /\ c \in DOMAIN conversation_history => Len(History(c)) = 2 * n
                    /\ f.user_type = "" /\ f.intent = "" /\ f.response = ""
                    /\ n = 0 => c \notin DOMAIN user_profiles
            /\ f.pc \notin BeforeUserTurn =>
                    /\ Len(History(c)) = 2 * n + 1
                    /\ History(c)[2 * n + 1].role = "user"
                    /\ History(c)[2 * n + 1].message = f.message
            /\ f.pc \in BeforeClassify =>
                    /\ f.user_type = "" /\ f.intent = "" /\ f.response = ""
                    /\ n = 0 => c \notin DOMAIN user_profiles
            /\ f.pc \in BeforeTypeStore \cup BeforeIntentStore \cup BeforeBotTurn =>
                    /\ f.user_type \in UserTypes
                    /\ f.intent = IntentTable[f.message][f.user_type]
            /\ f.pc \in BeforeTypeStore =>
                    /\ f.response = ""
                    /\ n = 0 => \/ c \notin DOMAIN user_profiles
                                \/ Profile(c) = <<>>
            /\ f.pc \in BeforeIntentStore =>
                    /\ f.response = ""
                    /\ Profile(c).type = f.user_type
                    /\ n = 0 => "last_intent" \notin DOMAIN Profile(c)
            /\ f.pc \in BeforeBotTurn =>
                    /\ Profile(c).type = f.user_type
                    /\ Profile(c).last_intent = f.intent
                    /\ f.response = generate_response(f.user_type, f.intent,
                                                      f.message, c)

\* C21 happens: on the first message of an id the user turn is in the
\* history, the role is identified, and the id has no profile yet, while
\* a call on another id is past storing its role.
C21_Witness ==
    \E t, o \in Threads :
        /\ frames[t].pc = "prof_check"
        /\ frames[t].conversation_id \notin raced
        /\ NReturned(frames[t].conversation_id) = 0
        /\ Len(History(frames[t].conversation_id)) = 1
        /\ frames[t].conversation_id \notin DOMAIN user_profiles
        /\ frames[t].user_type \in StickyRoles
        /\ frames[o].pc \in BeforeBotTurn
        /\ frames[o].conversation_id # frames[t].conversation_id

\* Thread t runs, in this step, a statement of identify_user_type or
\* identify_intent (lines 145-146 of its call)
Classifies(t) ==
    /\ frames[t].pc \in BeforeClassify
    /\ frames'[t] # frames[t]

\* C22: classification is read-only: every step in which a thread runs
\* identify_user_type or identify_intent, whatever the message, the id and
\* the store are, leaves conversation_history, user_profiles and the lists
\* and dicts they refer to as they were.
C22_ClassificationReadOnly ==
    [][ \A t \in Threads :
            Classifies(t) =>
                UNCHANGED << conversation_history, user_profiles, lists, dicts >>
      ]_vars

\* C22 happens: a call has identified role and intent for an id whose
\* profile holds a role that the message does not score and another
\* intent, and the profile still holds them.
C22_Witness ==
    \E o \in Threads :
        /\ frames[o].pc = "prof_check"
        /\ frames[o].conversation_id \in DOMAIN user_profiles
        /\ "last_intent" \in DOMAIN Profile(frames[o].conversation_id)
        /\ frames[o].user_type = Profile(frames[o].conversation_id).type
        /\ frames[o].user_type # ScoreTable[frames[o].message]
        /\ frames[o].intent # Profile(frames[o].conversation_id).last_intent

\* Per classifier message: the occurrences of the keywords of each role
InvestorOccurrences ==
    [ m \in ClassifierMessages |->
        KeywordOccurrences(investor_keywords, Folded[m]) ]
EntrepreneurOccurrences ==
    [ m \in ClassifierMessages |->
        KeywordOccurrences(entrepreneur_keywords, Folded[m]) ]

\* The role that the comparison of two scores gives
RoleOfScores(investor_score, entrepreneur_score) ==
    IF investor_score > entrepreneur_score THEN "investor"
    ELSE IF entrepreneur_score > investor_score THEN "entrepreneur"
    ELSE "unknown"

\* C23 as stated: on a fresh conversation the role is that of the set
\* whose keywords occur more often in the lower-cased message, a keyword
\* that occurs twice counting 2: two occurrences of one investor keyword
\* against one of an entrepreneur keyword give investor.
C23_CountsOccurrences ==
    (/\ frames[1].pc = "identify_user_type"
     /\ frames[1].conversation_id \notin DOMAIN user_profiles) =>
        frames[1].user_type =
            RoleOfScores(InvestorOccurrences[frames[1].message],
                         EntrepreneurOccurrences[frames[1].message])

\* C23 amended: a keyword counts once however often it occurs, so a
\* message in which the two sets have as many keywords present gets
\* unknown whatever the occurrences are: two occurrences of one investor
\* keyword against one of an entrepreneur keyword tie 1-1.
C23_CountsKeywordsPresent ==
    (/\ frames[1].pc = "identify_user_type"
     /\ frames[1].conversation_id \notin DOMAIN user_profiles) =>
        LET m == frames[1].message
        IN  /\ frames[1].user_type =
                    RoleOfScores(InvestorScore[m], EntrepreneurScore[m])
            /\ InvestorScore[m] <= InvestorOccurrences[m]
            /\ EntrepreneurScore[m] <= EntrepreneurOccurrences[m]
            /\ m = "capital, more capital for my pitch" =>
                    /\ InvestorOccurrences[m] = 2 /\ InvestorScore[m] = 1
                    /\ EntrepreneurOccurrences[m] = 1 /\ EntrepreneurScore[m] = 1
                    /\ frames[1].user_type = "unknown"

\* C23 happens: a message with two occurrences of one investor keyword
\* and one of an entrepreneur keyword was classified for an id without a
\* profile.
C23_Witness ==
    /\ frames[1].pc = "identify_user_type"
    /\ frames[1].conversation_id \notin DOMAIN user_profiles
    /\ InvestorOccurrences[frames[1].message] = 2
    /\ InvestorScore[frames[1].message] = 1
    /\ EntrepreneurOccurrences[frames[1].message] = 1
    /\ frames[1].user_type = "unknown"

\* The store holds role investor or entrepreneur for id c
HoldsStickyRole(c) ==
    /\ c \in DOMAIN user_profiles
    /\ "type" \in DOMAIN Profile(c)
    /\ Profile(c).type \in StickyRoles

\* C24: stickiness survives races on one id: in every step of the
\* concurrent server, an id for which the store holds role investor or
\* entrepreneur holds the same role after the step, and a thread that
\* identifies the role for that id in the step gets the stored role.
C24_StickyUnderRaces ==
    [][ \A c \in DOMAIN user_profiles :
            HoldsStickyRole(c) =>
                /\ c \in DOMAIN user_profiles'
                /\ "type" \in DOMAIN dicts'[user_profiles'[c]]
                /\ dicts'[user_profiles'[c]].type = Profile(c).type
                /\ \A t \in Threads :
                        (Classifies(t) /\ frames[t].conversation_id = c
                                      /\ frames'[t].user_type # "")
                            => frames'[t].user_type = Profile(c).type ]_vars

\* The intents registered in group g
GroupIntents(g) ==
    { intent_patterns[g][i].intent : i \in 1..Len(intent_patterns[g]) }

\* Per request message: the groups with a pattern that matches it
MatchedGroups ==
    [ m \in Messages |->
        { g \in DOMAIN intent_patterns :
            ScanGroup(intent_patterns[g], lower(m)) # "" } ]

\* C25: the intent a process_message call returns is an intent of the
\* group of the role it returns, an intent of the general group, or
\* general_inquiry, whatever the message matches: investor never gets an
\* entrepreneur intent, entrepreneur never an investor intent, and unknown
\* gets general intents or general_inquiry only.
C25_IntentOfOwnGroup ==
    \A c \in DOMAIN calls : \A i \in 1..Len(calls[c]) :
        LET r == calls[c][i].result
        IN  /\ r.intent \in
                    (IF r.user_type \in DOMAIN intent_patterns
                     THEN GroupIntents(r.user_type) ELSE {})
                        \cup GroupIntents("general") \cup {"general_inquiry"}
            /\ r.user_type = "investor" =>
                    r.intent \notin GroupIntents("entrepreneur")
            /\ r.user_type = "entrepreneur" =>
                    r.intent \notin GroupIntents("investor")
            /\ r.user_type = "unknown" =>
                    r.intent \notin GroupIntents("investor")
                                        \cup GroupIntents("entrepreneur")

\* C25 happens: a call on an id whose role is investor carried a message
\* that matches a pattern of the entrepreneur group and none of the
\* investor and general groups, and returned general_inquiry.
C25_Witness ==
    \E c \in DOMAIN calls : \E i \in 1..Len(calls[c]) :
        /\ calls[c][i].result.user_type = "investor"
        /\ MatchedGroups[calls[c][i].message] = {"entrepreneur"}
        /\ calls[c][i].result.intent = "general_inquiry"

\* C26: reading a history back is read-only: a get_conversation request on
\* any id leaves conversation_history, user_profiles and the lists and
\* dicts they refer to as they were; after the read of an id without a
\* session the id still has neither session nor profile, and a
\* process_message call on it then scores its role from the message and
\* leaves a history of its two turns.
C26_ReadBackReadOnly ==
    [][ last'.entry = "get_conversation" =>
            /\ UNCHANGED << conversation_history, user_profiles, lists, dicts >>
            /\ last'.arg[1] \notin DOMAIN conversation_history =>
                /\ last'.arg[1] \notin DOMAIN conversation_history'
                /\ last'.arg[1] \notin DOMAIN user_profiles'
                /\ \A m \in Messages :
                    \A r \in { process_message(Store', m, last'.arg, "") } :
                        /\ r.f.result.conversation_id = last'.arg[1]
                        /\ r.f.result.user_type = ScoreTable[m]
                        /\ NoStamps(r.st.lists[r.st.conversation_history[last'.arg[1]]])
                            = << [ role |-> "user", message |-> m ],
                                 [ role |-> "bot",
                                   message |-> r.f.result.response ] >> ]_vars

\* C26 happens: the history of an id without a session has been read back
\* after a call on another id, and the store holds what that call left:
\* one session of two turns and one profile.
C26_Witness ==
    /\ last.entry = "get_conversation"
    /\ last.arg[1] \notin DOMAIN conversation_history
    /\ last.arg[1] \notin DOMAIN user_profiles
    /\ ncalls = 1
    /\ Cardinality(DOMAIN conversation_history) = 1
    /\ Cardinality(DOMAIN user_profiles) = 1
    /\ \A d \in DOMAIN conversation_history : Len(History(d)) = 2

=============================================================================
